---- MODULE Spec2Model ----
(***************************************************************************)
(* Batch resume evaluation pipeline of app.py: main() as a state machine   *)
(* (one Streamlit rerun = one invocation), parse_json_response and the     *)
(* accepted/rejected display as operators.                                 *)
(*                                                                         *)
(* Text is modelled as a sequence of tokens: "{", "}", a run of any other  *)
(* characters (noise), a  "key": scalar  member, or a  "key":  that opens  *)
(* a nested object.  Commas, quotes and whitespace are not represented.    *)
(***************************************************************************)
EXTENDS Integers, Sequences, FiniteSets, TLC

VARIABLES
    pc,              \* position of main(): "idle", "loop", "returned", "shown", "parsed"
    jd,              \* main: jd (text area), "" when empty
    weights,         \* main: the four number inputs <<experience, skills, education, industry>>
    uploaded_files,  \* main: uploaded_files, a sequence of files
    button,          \* main: st.button("Analyze Resumes")
    has_results,     \* "results" in st.session_state
    results,         \* st.session_state.results
    error_messages,  \* main: error_messages
    success_count,   \* main: success_count
    failure_count,   \* main: failure_count
    idx,             \* main: position of the for loop over uploaded_files (next index)
    log,             \* usage_log.csv: [header, rows, last], the header written or not,
                     \* the number of rows below it, and the last of them
    accepted,        \* main: accepted_df
    rejected,        \* main: rejected_df
    attempts,        \* history: per processed file, what the try body did
    fresh,           \* history: the results appended by the latest batch run
    started,         \* history: number of batch runs started
    raw_in,          \* parse_json_response: the text argument, as [pre, doc, hasdoc, suf]
    parse_out        \* parse_json_response: its outcome

vars == <<pc, jd, weights, uploaded_files, button, has_results, results,
          error_messages, success_count, failure_count, idx, log, accepted,
          rejected, attempts, fresh, started, raw_in, parse_out>>

----------------------------------------------------------------------------
(* Bounds *)

\* longest batch of uploaded files
MaxFiles == 3
\* most batch runs in one session
MaxRuns == 2
\* longest text before and after the JSON object, in tokens
MaxPad == 2
\* longest result list given to the display
MaxRows == 4

----------------------------------------------------------------------------
(* JSON values and text *)

Val(t, n, sub) == [t |-> t, n |-> n, sub |-> sub]
JInt(n)   == Val("int", n, <<>>)
\* a float, in tenths: JFloat(779) is 77.9
JFloat(n) == Val("float", n, <<>>)
\* a string that is not a number, such as "N/A" or "high"
JStr      == Val("str", 0, <<>>)
\* a string of decimal digits, such as "85"
JNumStr(n) == Val("numstr", n, <<>>)
JNull     == Val("null", 0, <<>>)
\* a list of strings
JList     == Val("list", 0, <<>>)
\* an object; d is a sequence of members [k, v], keys distinct
JObj(d)   == Val("obj", 0, d)
M(k, v)   == [k |-> k, v |-> v]

LB == [k |-> "{", t |-> "punct", n |-> 0]
RB == [k |-> "}", t |-> "punct", n |-> 0]
NOISE == [k |-> "", t |-> "noise", n |-> 0]
PairTok(k, v) == [k |-> k, t |-> v.t, n |-> v.n]
KeyTok(k) == [k |-> k, t |-> "key", n |-> 0]

\* the text of a JSON object, as the model is asked to write it
RECURSIVE EmitMembers(_)
EmitMembers(d) ==
    IF d = <<>> THEN <<>>
    ELSE LET m == Head(d)
         IN  (IF m.v.t = "obj"
              THEN <<KeyTok(m.k), LB>> \o EmitMembers(m.v.sub) \o <<RB>>
              ELSE <<PairTok(m.k, m.v)>>) \o EmitMembers(Tail(d))

Emit(d) == <<LB>> \o EmitMembers(d) \o <<RB>>

\* the raw model text of an input [pre, doc, hasdoc, suf]
Raw(r) == r.pre \o (IF r.hasdoc THEN Emit(r.doc) ELSE <<>>) \o r.suf

----------------------------------------------------------------------------
(* Python dict operations *)

HasKey(d, key) == \E i \in 1..Len(d) : d[i].k = key

\* d.get(key, default)
DictGet(d, key, default) ==
    IF HasKey(d, key)
    THEN d[CHOOSE i \in 1..Len(d) : d[i].k = key].v
    ELSE default

\* d[key] = v
DictSet(d, key, v) ==
    IF HasKey(d, key)
    THEN [i \in 1..Len(d) |-> IF d[i].k = key THEN M(key, v) ELSE d[i]]
    ELSE Append(d, M(key, v))

\* d.setdefault(key, v)
SetDefault(d, key, v) == IF HasKey(d, key) THEN d ELSE Append(d, M(key, v))

----------------------------------------------------------------------------
(* json.loads and re.search *)

Fail == [ok |-> FALSE, d |-> <<>>, next |-> 0]

\* members of an object from token i on, up to and including its "}"
RECURSIVE ParseMembers(_, _, _)
ParseMembers(toks, i, acc) ==
    IF i > Len(toks) THEN Fail
    ELSE LET t == toks[i]
         IN  CASE t = RB -> [ok |-> TRUE, d |-> acc, next |-> i + 1]
               [] t.t = "key" ->
                    IF i + 1 <= Len(toks) /\ toks[i + 1] = LB
                    THEN LET in == ParseMembers(toks, i + 2, <<>>)
                         IN  IF in.ok
                             THEN ParseMembers(toks, in.next,
                                               DictSet(acc, t.k, JObj(in.d)))
                             ELSE Fail
                    ELSE Fail
               [] t.t \in {"punct", "noise"} /\ t # RB -> Fail
               [] OTHER -> ParseMembers(toks, i + 1,
                                        DictSet(acc, t.k, Val(t.t, t.n, <<>>)))

\* json.loads(s) for a text s that starts with "{": fails on anything that
\* is not exactly one object
json_loads(s) ==
    IF s = <<>> \/ s[1] # LB THEN Fail
    ELSE LET r == ParseMembers(s, 2, <<>>)
         IN  IF r.ok /\ r.next = Len(s) + 1 THEN r ELSE Fail

Min(S) == CHOOSE x \in S : \A y \in S : x <= y
Max(S) == CHOOSE x \in S : \A y \in S : x >= y
Opens(text) == {i \in 1..Len(text) : text[i] = LB}
Closes(text) == {i \in 1..Len(text) : text[i] = RB}

\* the span that stops at the first "}" after the first "{"
re_search_lazy(text) ==
    IF Opens(text) = {} \/ {c \in Closes(text) : c > Min(Opens(text))} = {}
    THEN [found |-> FALSE, from |-> 0, to |-> 0]
    ELSE [found |-> TRUE, from |-> Min(Opens(text)),
          to |-> Min({c \in Closes(text) : c > Min(Opens(text))})]

\* re.search(r"\{.*\}", text, re.DOTALL): from the first "{" to the last "}"
re_search(text) ==
    IF Opens(text) = {} \/ Closes(text) = {} \/ Max(Closes(text)) < Min(Opens(text))
    THEN [found |-> FALSE, from |-> 0, to |-> 0]
    ELSE [found |-> TRUE, from |-> Min(Opens(text)), to |-> Max(Closes(text))]

BreakdownFields == <<"experience", "skills", "education", "industry">>

\* for field in [...]: sb.setdefault(field, 0)
RECURSIVE FillDefaults(_, _)
FillDefaults(sb, fields) ==
    IF fields = <<>> THEN sb
    ELSE FillDefaults(SetDefault(sb, Head(fields), JInt(0)), Tail(fields))

\* parse_json_response(text): [ok, d]; ok = FALSE is the raised ValueError
parse_json_response(text) ==
    LET m == re_search(text)
    IN  IF ~m.found THEN [ok |-> FALSE, d |-> <<>>]
        ELSE LET p == json_loads(SubSeq(text, m.from, m.to))
             IN  IF ~p.ok THEN [ok |-> FALSE, d |-> <<>>]
                 ELSE LET sb == DictGet(p.d, "score_breakdown", JObj(<<>>))
                      IN  IF sb.t # "obj" THEN [ok |-> FALSE, d |-> <<>>]
                          ELSE [ok |-> TRUE,
                                d |-> DictSet(p.d, "score_breakdown",
                                        JObj(FillDefaults(sb.sub, BreakdownFields)))]

----------------------------------------------------------------------------
(* Inputs of parse_json_response *)

Breakdown(e, s, u, i) ==
    JObj(<<M("experience", JInt(e)), M("skills", JInt(s)),
           M("education", JInt(u)), M("industry", JInt(i))>>)

\* {"name": ..., "score": 77}
DocPlain == <<M("name", JStr), M("score", JInt(77))>>
\* every field of the requested format
DocFull ==
    <<M("name", JStr), M("score", JInt(85)),
      M("score_breakdown", Breakdown(30, 20, 10, 25)),
      M("skills_matched", JList), M("remark", JStr)>>
\* a breakdown with one field only
DocPartial ==
    <<M("score", JInt(60)), M("score_breakdown", JObj(<<M("skills", JInt(20))>>))>>
DocEmpty == <<>>
DocNullBreakdown == <<M("score", JInt(70)), M("score_breakdown", JNull)>>
DocTextScore == <<M("name", JStr), M("score", JStr)>>
DocNullScore == <<M("name", JStr), M("score", JNull)>>
DocNoScore == <<M("name", JStr)>>
DocHighScore == <<M("name", JStr), M("score", JInt(150))>>
DocFloatScore == <<M("score", JFloat(779))>>
DocDigitsScore == <<M("score", JNumStr(59))>>
DocNullSkills == <<M("score", JInt(90)), M("skills_matched", JNull)>>

Docs == {DocPlain, DocFull, DocPartial, DocEmpty, DocNullBreakdown,
         DocTextScore, DocNoScore}

RECURSIVE SeqsUpTo(_, _)
SeqsUpTo(S, n) ==
    IF n = 0 THEN {<<>>}
    ELSE LET shorter == SeqsUpTo(S, n - 1)
         IN  shorter \cup {Append(q, x) : q \in shorter, x \in S}

\* text around the object: noise and stray braces
Pads == SeqsUpTo({NOISE, LB, RB}, MaxPad)

Text(pre, doc, hasdoc, suf) ==
    [pre |-> pre, doc |-> doc, hasdoc |-> hasdoc, suf |-> suf]

ParseInputs ==
    {Text(pre, doc, TRUE, suf) : pre \in Pads, doc \in Docs, suf \in Pads}
    \cup {Text(pre, <<>>, FALSE, <<>>) : pre \in Pads}

NoText == Text(<<>>, <<>>, FALSE, <<>>)
NoParse == [ok |-> FALSE, d |-> <<>>]

----------------------------------------------------------------------------
(* Collaborators of main(): extraction, the API call, building a result *)

PoolNames == <<"a.pdf", "b.docx", "c.pdf", "d.docx", "e.pdf">>
PoolExts == <<"pdf", "docx", "pdf", "docx", "pdf">>

\* the i-th file of the pool; ext is the lower-cased suffix of its name
FileAt(i) ==
    [name |-> PoolNames[((i - 1) % Len(PoolNames)) + 1],
     ext |-> PoolExts[((i - 1) % Len(PoolNames)) + 1]]

\* extract_text(uploaded_file); readable = FALSE is a file its library
\* cannot read
extract_text(file, readable) ==
    IF file.ext = "pdf"
    THEN (IF readable THEN [ok |-> TRUE, msg |-> ""]
          ELSE [ok |-> FALSE, msg |-> "cannot open pdf"])
    ELSE IF file.ext = "docx"
    THEN (IF readable THEN [ok |-> TRUE, msg |-> ""]
          ELSE [ok |-> FALSE, msg |-> "Error reading Word document"])
    ELSE [ok |-> FALSE, msg |-> "Unsupported file format"]

\* what the endpoint answers: an HTTP error status, a body without
\* candidates, or a body with the model's text
HttpError == [kind |-> "http_error", text |-> NoText]
NoCandidates == [kind |-> "no_candidates", text |-> NoText]
Answer(t) == [kind |-> "text", text |-> t]
\* the endpoint was not called
NotAsked == [kind |-> "not_asked", text |-> NoText]

\* get_gemini_response(prompt, api_key), given the endpoint's answer
get_gemini_response(reply) ==
    IF reply.kind = "http_error"
    THEN [ok |-> FALSE, text |-> NoText, msg |-> "HTTPError"]
    ELSE IF reply.kind = "no_candidates"
    THEN [ok |-> FALSE, text |-> NoText, msg |-> "KeyError: candidates"]
    ELSE [ok |-> TRUE, text |-> reply.text, msg |-> ""]

\* Python's int(x)
PyInt(v) ==
    CASE v.t = "int" -> [ok |-> TRUE, n |-> v.n, msg |-> ""]
      [] v.t = "float" ->
           [ok |-> TRUE,
            n |-> IF v.n >= 0 THEN v.n \div 10 ELSE -((-v.n) \div 10),
            msg |-> ""]
      [] v.t = "numstr" -> [ok |-> TRUE, n |-> v.n, msg |-> ""]
      [] v.t = "str" ->
           [ok |-> FALSE, n |-> 0, msg |-> "invalid literal for int()"]
      [] OTHER ->
           [ok |-> FALSE, n |-> 0, msg |-> "int() argument must be a string or a number"]

\* ", ".join(x) raises unless x is an iterable of strings
JoinOk(v) == v.t \in {"list", "str", "numstr", "obj"}

NoResult ==
    [filename |-> "", name |-> JNull, score |-> 0, education |-> JNull,
     experience |-> JNull, remark |-> JNull, score_breakdown |-> <<>>]

\* the dict appended to st.session_state.results, from the parsed response
BuildResult(file, d) ==
    LET breakdown == DictGet(d, "score_breakdown", JObj(<<>>))
        score == PyInt(DictGet(d, "score", JInt(0)))
        skills == DictGet(d, "skills_matched", JList)
    IN  IF ~score.ok THEN [ok |-> FALSE, rec |-> NoResult, msg |-> score.msg]
        ELSE IF ~JoinOk(skills)
        THEN [ok |-> FALSE, rec |-> NoResult, msg |-> "can only join an iterable"]
        ELSE [ok |-> TRUE, msg |-> "",
              rec |-> [filename |-> file.name,
                       name |-> DictGet(d, "name", JStr),
                       score |-> score.n,
                       education |-> DictGet(d, "education", JStr),
                       experience |-> DictGet(d, "experience", JStr),
                       remark |-> DictGet(d, "remark", JStr),
                       score_breakdown |->
                           [i \in 1..4 |->
                               DictGet(breakdown.sub, BreakdownFields[i], JInt(0)).n]]]

Outcome(ec, cc, step, msg, rec) ==
    [extract_calls |-> ec, client_calls |-> cc, step |-> step, msg |-> msg,
     rec |-> rec]

\* the body of the try block for one file: which step raised ("none" when
\* the result was appended), and how often each collaborator was called
TryBody(file, readable, reply) ==
    LET ex == extract_text(file, readable)
    IN  IF ~ex.ok THEN Outcome(1, 0, "extract", ex.msg, NoResult)
        ELSE LET resp == get_gemini_response(reply)
             IN  IF ~resp.ok THEN Outcome(1, 1, "client", resp.msg, NoResult)
                 ELSE LET pj == parse_json_response(Raw(resp.text))
                      IN  IF ~pj.ok
                          THEN Outcome(1, 1, "parse", "Could not parse JSON", NoResult)
                          ELSE LET b == BuildResult(file, pj.d)
                               IN  IF ~b.ok
                                   THEN Outcome(1, 1, "build", b.msg, NoResult)
                                   ELSE Outcome(1, 1, "none", "", b.rec)

----------------------------------------------------------------------------
(* The display: sort by score, split at the threshold *)

AcceptThreshold == 60

Injective(f, n) == \A i, j \in 1..n : f[i] = f[j] => i = j

\* df.sort_values(by="score", ascending=False): pandas' default sort kind
\* is quicksort, which is not stable, so every descending order of the
\* rows is a possible outcome
SortValues(rows) ==
    {[i \in 1..Len(rows) |-> rows[f[i]]] :
        f \in {g \in [1..Len(rows) -> 1..Len(rows)] :
                 /\ Injective(g, Len(rows))
                 /\ \A i \in 1..(Len(rows) - 1) :
                        rows[g[i]].score >= rows[g[i + 1]].score}}

IsAccepted(r) == r.score >= AcceptThreshold
IsRejected(r) == r.score < AcceptThreshold

\* lines 255-264, for the list held in the session
Display(rows) ==
    IF rows = <<>>
    THEN accepted' = <<>> /\ rejected' = <<>>
    ELSE \E df \in SortValues(rows) :
            /\ accepted' = SelectSeq(df, IsAccepted)
            /\ rejected' = SelectSeq(df, IsRejected)

----------------------------------------------------------------------------
(* main(): inputs *)

WeightChoices == {<<40, 20, 10, 30>>, <<40, 20, 10, 20>>, <<60, 30, 10, 30>>}
\* the job description, as its words; <<>> is the empty text area
JdChoices == {<<>>, <<"sales", "manager">>}
UploadChoices == {[i \in 1..n |-> FileAt(i)] : n \in 0..MaxFiles}

\* what the endpoint may answer for one resume
MainReplies ==
    {HttpError, NoCandidates,
     Answer(Text(<<NOISE>>, DocPlain, TRUE, <<NOISE>>)),
     Answer(Text(<<>>, DocNoScore, TRUE, <<>>)),
     Answer(Text(<<>>, DocHighScore, TRUE, <<>>)),
     Answer(Text(<<>>, DocTextScore, TRUE, <<>>)),
     Answer(Text(<<>>, DocNullScore, TRUE, <<>>)),
     Answer(Text(<<NOISE>>, <<>>, FALSE, <<>>))}

NoWeights == <<0, 0, 0, 0>>

----------------------------------------------------------------------------
(* main(): steps *)

\* total != 100 is rejected without it
AnyWeights(w) == TRUE

\* lines 181-182
WeightsOK(w) == w[1] + w[2] + w[3] + w[4] = 100

\* line 199
InputsOK(j, f) == j # <<>> /\ f # <<>>

\* the list is kept across runs
KeepResults(old) == old

\* line 209: st.session_state.results = []
ResetResults(old) == <<>>

\* a failure ends the loop
AbortOnFailure(i, failed) == IF failed THEN Len(uploaded_files) + 1 ELSE i + 1

\* the for loop goes on to the next file, whatever happened to this one
NextIndex(i, failed) == i + 1

\* the newest error is put first
PrependError(errs, m) == <<m>> \o errs

\* line 237: error_messages.append(error_msg)
AppendError(errs, m) == Append(errs, m)

\* failures are not counted
KeepCount(n) == n

\* line 238: failure_count += 1
CountFailure(n) == n + 1

NoRow ==
    [number_of_resumes |-> 0, jd_length_words |-> 0, errors_occurred |-> FALSE,
     success_count |-> 0, failure_count |-> 0, error_message |-> 0]

\* usage_log.csv before the first run: the file does not exist
NoLog == [header |-> FALSE, rows |-> 0, last |-> NoRow]

\* log_usage_summary(log_entry): the header if the file is new, then one row
\* appended; the file is never read back by main's logic, and of its rows
\* the model keeps their number and the last one
AppendRow(file, entry) ==
    [header |-> TRUE, rows |-> file.rows + 1, last |-> entry]

\* a row is written only when something failed
WriteRowOnFailure(file, entry) ==
    IF entry.failure_count = 0 THEN file ELSE AppendRow(file, entry)

log_usage_summary(file, entry) == AppendRow(file, entry)

\* the log entry of lines 242-252; the joined error text is represented by
\* the number of messages joined (0 for "None"); timestamp and duration are
\* wall-clock values and are left out
LogEntry ==
    [number_of_resumes |-> Len(uploaded_files),
     jd_length_words |-> Len(jd),
     errors_occurred |-> failure_count > 0,
     success_count |-> success_count,
     failure_count |-> failure_count,
     error_message |-> Len(error_messages)]

LocalsUnchanged ==
    UNCHANGED <<error_messages, success_count, failure_count, idx, attempts>>

\* lines 181-184: the weights do not sum to 100, main returns before the
\* uploader and the button exist
RejectWeights(j, w) ==
    /\ pc = "idle"
    /\ ~WeightsOK(w)
    /\ jd' = j /\ weights' = w /\ uploaded_files' = <<>> /\ button' = FALSE
    /\ pc' = "returned"
    /\ LocalsUnchanged
    /\ UNCHANGED <<has_results, results, log, accepted, rejected, fresh,
                   started, raw_in, parse_out>>

\* a rerun without the button: lines 195-196, then the display
Rerun(j, w, f) ==
    /\ pc = "idle"
    /\ WeightsOK(w)
    /\ jd' = j /\ weights' = w /\ uploaded_files' = f /\ button' = FALSE
    /\ has_results' = TRUE
    /\ Display(results)
    /\ pc' = "returned"
    /\ LocalsUnchanged
    /\ UNCHANGED <<results, log, fresh, started, raw_in, parse_out>>

\* lines 198-201: the button with no job description or no files
RejectInputs(j, w, f) ==
    /\ pc = "idle"
    /\ WeightsOK(w)
    /\ ~InputsOK(j, f)
    /\ jd' = j /\ weights' = w /\ uploaded_files' = f /\ button' = TRUE
    /\ has_results' = TRUE
    /\ pc' = "returned"
    /\ LocalsUnchanged
    /\ UNCHANGED <<results, log, accepted, rejected, fresh, started, raw_in,
                   parse_out>>

\* lines 198-209: the button with the preconditions met
StartBatch(j, w, f) ==
    /\ pc = "idle"
    /\ started < MaxRuns
    /\ WeightsOK(w)
    /\ InputsOK(j, f)
    /\ jd' = j /\ weights' = w /\ uploaded_files' = f /\ button' = TRUE
    /\ has_results' = TRUE
    /\ success_count' = 0 /\ failure_count' = 0 /\ error_messages' = <<>>
    /\ results' = ResetResults(results)
    /\ idx' = 1
    /\ pc' = "loop"
    /\ attempts' = <<>>
    /\ fresh' = <<>>
    /\ started' = started + 1
    /\ UNCHANGED <<log, accepted, rejected, raw_in, parse_out>>

\* lines 212-238: one iteration of the for loop
ProcessFile(readable, reply) ==
    /\ pc = "loop"
    /\ idx <= Len(uploaded_files)
    /\ LET file == uploaded_files[idx]
           o == TryBody(file, readable, reply)
       IN  /\ IF o.step = "none"
              THEN /\ results' = Append(results, o.rec)
                   /\ success_count' = success_count + 1
                   /\ fresh' = Append(fresh, o.rec)
                   /\ UNCHANGED <<error_messages, failure_count>>
              ELSE /\ error_messages' =
                        AppendError(error_messages,
                                    [filename |-> file.name, msg |-> o.msg])
                   /\ failure_count' = CountFailure(failure_count)
                   /\ UNCHANGED <<results, success_count, fresh>>
           /\ attempts' = Append(attempts,
                                 [extract_calls |-> o.extract_calls,
                                  client_calls |-> o.client_calls,
                                  step |-> o.step,
                                  reply |-> IF o.client_calls = 0
                                            THEN NotAsked ELSE reply])
           /\ idx' = NextIndex(idx, o.step # "none")
    /\ UNCHANGED <<pc, jd, weights, uploaded_files, button, has_results, log,
                   accepted, rejected, started, raw_in, parse_out>>

\* lines 241-270: after the loop, the summary row and the display
Finish ==
    /\ pc = "loop"
    /\ idx > Len(uploaded_files)
    /\ log' = log_usage_summary(log, LogEntry)
    /\ Display(results)
    /\ pc' = "returned"
    /\ LocalsUnchanged
    /\ UNCHANGED <<jd, weights, uploaded_files, button, has_results, results,
                   fresh, started, raw_in, parse_out>>

\* main returns: its local variables are gone, the session and the log stay
Return ==
    /\ pc = "returned"
    /\ pc' = "idle"
    /\ jd' = <<>> /\ weights' = NoWeights /\ uploaded_files' = <<>>
    /\ button' = FALSE
    /\ error_messages' = <<>> /\ success_count' = 0 /\ failure_count' = 0
    /\ idx' = 0 /\ attempts' = <<>>
    /\ accepted' = <<>> /\ rejected' = <<>>
    /\ UNCHANGED <<has_results, results, log, fresh, started, raw_in, parse_out>>

Init ==
    /\ pc = "idle"
    /\ jd = <<>> /\ weights = NoWeights /\ uploaded_files = <<>>
    /\ button = FALSE
    /\ has_results = FALSE /\ results = <<>>
    /\ error_messages = <<>> /\ success_count = 0 /\ failure_count = 0
    /\ idx = 0
    /\ log = NoLog
    /\ accepted = <<>> /\ rejected = <<>>
    /\ attempts = <<>> /\ fresh = <<>> /\ started = 0
    /\ raw_in = NoText /\ parse_out = NoParse

Next ==
    \/ \E j \in JdChoices, w \in WeightChoices : RejectWeights(j, w)
    \/ \E j \in JdChoices, w \in WeightChoices, f \in UploadChoices : Rerun(j, w, f)
    \/ \E j \in JdChoices, w \in WeightChoices, f \in UploadChoices :
          RejectInputs(j, w, f)
    \/ \E j \in JdChoices, w \in WeightChoices, f \in UploadChoices :
          StartBatch(j, w, f)
    \/ \E readable \in BOOLEAN, reply \in MainReplies : ProcessFile(readable, reply)
    \/ Finish
    \/ Return

Spec == Init /\ [][Next]_vars

----------------------------------------------------------------------------
(* parse_json_response alone, over texts with an embedded object *)

InitParse ==
    /\ pc = "idle"
    /\ jd = <<>> /\ weights = NoWeights /\ uploaded_files = <<>>
    /\ button = FALSE
    /\ has_results = FALSE /\ results = <<>>
    /\ error_messages = <<>> /\ success_count = 0 /\ failure_count = 0
    /\ idx = 0
    /\ log = NoLog
    /\ accepted = <<>> /\ rejected = <<>>
    /\ attempts = <<>> /\ fresh = <<>> /\ started = 0
    /\ raw_in \in ParseInputs /\ parse_out = NoParse

ParseText ==
    /\ pc = "idle"
    /\ parse_out' = parse_json_response(Raw(raw_in))
    /\ pc' = "parsed"
    /\ UNCHANGED <<jd, weights, uploaded_files, button, has_results, results,
                   error_messages, success_count, failure_count, idx, log,
                   accepted, rejected, attempts, fresh, started, raw_in>>

NextParse == ParseText

SpecParse == InitParse /\ [][NextParse]_vars

----------------------------------------------------------------------------
(* The display alone, over result lists *)

ScoreChoices == {59, 60, 90}

RowAt(i, score) ==
    [filename |-> FileAt(i).name, name |-> JStr, score |-> score,
     education |-> JStr, experience |-> JStr, remark |-> JStr,
     score_breakdown |-> <<0, 0, 0, 0>>]

RowInputs ==
    UNION {{[i \in 1..n |-> RowAt(i, sc[i])] : sc \in [1..n -> ScoreChoices]} :
              n \in 0..MaxRows}

InitClassify ==
    /\ pc = "idle"
    /\ jd = <<>> /\ weights = NoWeights /\ uploaded_files = <<>>
    /\ button = FALSE
    /\ has_results = TRUE /\ results \in RowInputs
    /\ error_messages = <<>> /\ success_count = 0 /\ failure_count = 0
    /\ idx = 0
    /\ log = NoLog
    /\ accepted = <<>> /\ rejected = <<>>
    /\ attempts = <<>> /\ fresh = <<>> /\ started = 0
    /\ raw_in = NoText /\ parse_out = NoParse

ShowResults ==
    /\ pc = "idle"
    /\ Display(results)
    /\ pc' = "shown"
    /\ UNCHANGED <<jd, weights, uploaded_files, button, has_results, results,
                   error_messages, success_count, failure_count, idx, log,
                   attempts, fresh, started, raw_in, parse_out>>

NextClassify == ShowResults

SpecClassify == InitClassify /\ [][NextClassify]_vars

----------------------------------------------------------------------------
(* Properties of a batch run *)

Sum4(w) == w[1] + w[2] + w[3] + w[4]

\* this invocation of main started a batch run
InBatch ==
    \/ pc = "loop"
    \/ /\ pc = "returned"
       /\ button
       /\ Sum4(weights) = 100 /\ jd # <<>> /\ uploaded_files # <<>>

\* names of the processed files whose try body ended well (or did not)
RECURSIVE NamesWhere(_, _)
NamesWhere(k, wantOk) ==
    IF k = 0 THEN <<>>
    ELSE LET rest == NamesWhere(k - 1, wantOk)
         IN  IF (attempts[k].step = "none") = wantOk
             THEN Append(rest, uploaded_files[k].name)
             ELSE rest

FileNamesOf(rows) == [i \in 1..Len(rows) |-> rows[i].filename]

\* the result appended for the i-th file, when its try body ended well
ResultOf(i) ==
    results[Cardinality({k \in 1..i : attempts[k].step = "none"})]

\* C1: in a batch run every file is attempted exactly once: extract_text is
\* called once per file, the endpoint once when extraction succeeded and
\* never when it failed, nothing is retried, and no failure keeps the loop
\* from the later files or from the summary step.
C1_EachFileAttemptedOnce ==
    /\ \A i \in 1..Len(attempts) :
          /\ attempts[i].extract_calls = 1
          /\ attempts[i].client_calls =
                (IF attempts[i].step = "extract" THEN 0 ELSE 1)
    /\ pc = "loop" =>
          /\ Len(attempts) = idx - 1
          /\ idx <= Len(uploaded_files) + 1
    /\ (pc = "returned" /\ InBatch) =>
          /\ Len(attempts) = Len(uploaded_files)
          /\ log.rows = started

C1_Witness ==
    /\ pc = "returned"
    /\ Len(attempts) = 3
    /\ attempts[1].step = "extract"
    /\ attempts[2].step = "client"
    /\ attempts[3].step = "none"
    /\ attempts[3].client_calls = 1

\* C2: every batch run that starts appends exactly one row to the log, and
\* only after the last file of the batch was processed, whatever the number
\* of failures; an invocation that starts no batch appends nothing.
C2_OneSummaryPerRun ==
    [][/\ log'.rows = started' - (IF pc' = "loop" THEN 1 ELSE 0)
       /\ log' # log =>
             /\ pc = "loop"
             /\ Len(attempts) = Len(uploaded_files)
             /\ log'.rows = log.rows + 1
       /\ (pc = "idle" /\ pc' = "returned") => log' = log]_vars

C2_Witness ==
    /\ pc = "returned"
    /\ log.rows = 2
    /\ Len(uploaded_files) = 3
    /\ log.last.failure_count = 3
    /\ log.last.success_count = 0

\* C3: after (and during) a batch run each processed file is in exactly one
\* of the two outputs: results holds the files whose extraction, API call
\* and validation succeeded, errors the files where a step failed, both in
\* input order, each error carrying the name of its file.
C3_ResultsAndErrorsInInputOrder ==
    InBatch =>
       /\ FileNamesOf(results) = NamesWhere(Len(attempts), TRUE)
       /\ FileNamesOf(error_messages) = NamesWhere(Len(attempts), FALSE)
       /\ Len(results) + Len(error_messages) = Len(attempts)
       /\ pc = "returned" => Len(attempts) = Len(uploaded_files)

C3_Witness ==
    /\ pc = "returned"
    /\ Len(uploaded_files) = 3
    /\ FileNamesOf(results) = <<"a.pdf", "c.pdf">>
    /\ error_messages =
          <<[filename |-> "b.docx", msg |-> "Error reading Word document"]>>
    /\ log.last.success_count = 2
    /\ log.last.failure_count = 1

\* C4: in the row logged at the end of a batch run, success_count is the
\* number of results of the run, failure_count the number of errors of the
\* run, and the two add up to number_of_resumes, the number of files.
C4_SummaryCounts ==
    (pc = "returned" /\ InBatch) =>
       /\ log.last.success_count = Len(results)
       /\ log.last.failure_count = Len(error_messages)
       /\ log.last.number_of_resumes = Len(uploaded_files)
       /\ log.last.success_count + log.last.failure_count
             = log.last.number_of_resumes

C4_Witness ==
    /\ pc = "returned"
    /\ InBatch
    /\ log.last.number_of_resumes = 3
    /\ log.last.success_count = 1
    /\ log.last.failure_count = 2
    /\ Len(results) = 1

\* C5: when the weights do not sum to 100, or the job description is empty,
\* or no file was supplied, the invocation processes no resume: no
\* extraction and no API call happens in it.
C5_NoWorkWhenRejected ==
    (/\ pc \in {"loop", "returned"}
     /\ \/ Sum4(weights) # 100
        \/ jd = <<>>
        \/ uploaded_files = <<>>)
    => /\ pc = "returned"
       /\ attempts = <<>>
       /\ error_messages = <<>>

C5_Witness ==
    /\ pc = "returned"
    /\ Sum4(weights) = 90
    /\ jd # <<>>
    /\ results # <<>>
    /\ attempts = <<>>

\* C7: a response whose JSON object has no score, or a score that is not a
\* number, still gives a result, with score 0, and no error.
C7_NonNumericScoreBecomesZero ==
    \A i \in 1..Len(attempts) :
       LET a == attempts[i]
           doc == a.reply.text.doc
       IN  (/\ a.reply.kind = "text"
            /\ a.reply.text.hasdoc
            /\ a.step # "parse"
            /\ DictGet(doc, "score", JNull).t \in {"str", "null"}
            /\ JoinOk(DictGet(doc, "skills_matched", JList)))
           => /\ a.step = "none"
              /\ ResultOf(i).score = 0

\* C9: every result in the list has a score in 0..100.
C9_ScoreInRange ==
    \A i \in 1..Len(results) : results[i].score \in 0..100

\* C10: each batch run replaces the list: at any time it holds exactly the
\* successes of the latest run that started, nothing of an earlier run; an
\* invocation that starts no run leaves it as it was.
C10_ReplacedWholesale ==
    [][/\ results' = fresh'
       /\ (pc = "idle" /\ pc' = "returned") => results' = results]_vars

C10_Witness ==
    /\ pc = "returned"
    /\ started = 2
    /\ InBatch
    /\ Len(uploaded_files) = 2
    /\ failure_count = 2
    /\ results = <<>>

----------------------------------------------------------------------------
(* Properties of parse_json_response *)

\* out is the successful parse of the object doc: doc's fields, and a
\* score_breakdown whose four fields are doc's or 0
ParsedAs(doc, out) ==
    /\ out.ok
    /\ \A i \in 1..Len(doc) :
          doc[i].k # "score_breakdown" =>
             /\ HasKey(out.d, doc[i].k)
             /\ DictGet(out.d, doc[i].k, JNull) = doc[i].v
    /\ \A j \in 1..Len(out.d) :
          out.d[j].k = "score_breakdown" \/ HasKey(doc, out.d[j].k)
    /\ HasKey(out.d, "score_breakdown")
    /\ LET sb == DictGet(out.d, "score_breakdown", JNull)
           given == DictGet(doc, "score_breakdown", JObj(<<>>))
       IN  /\ sb.t = "obj"
           /\ \A f \in {"experience", "skills", "education", "industry"} :
                 DictGet(sb.sub, f, JNull) = DictGet(given.sub, f, JInt(0))
           /\ \A j \in 1..Len(sb.sub) :
                 \/ sb.sub[j].k \in {"experience", "skills", "education", "industry"}
                 \/ HasKey(given.sub, sb.sub[j].k)

Contains(q, x) == \E i \in 1..Len(q) : q[i] = x

----------------------------------------------------------------------------
(* Properties of the display *)

\* r put into s, a list in descending score order, after its equals
RECURSIVE InsertDesc(_, _)
InsertDesc(s, r) ==
    IF s = <<>> THEN <<r>>
    ELSE IF Head(s).score >= r.score
    THEN <<Head(s)>> \o InsertDesc(Tail(s), r)
    ELSE <<r>> \o s

\* rows by score descending, equal scores in input order
RECURSIVE StableSortDesc(_)
StableSortDesc(rows) ==
    IF rows = <<>> THEN <<>>
    ELSE InsertDesc(StableSortDesc(SubSeq(rows, 1, Len(rows) - 1)),
                    rows[Len(rows)])

\* C6: accepted holds the results with score >= 60, rejected those with
\* score < 60, each by score descending with equal scores in input order.
C6_StablePartition ==
    pc = "shown" =>
       /\ accepted = SelectSeq(StableSortDesc(results), IsAccepted)
       /\ rejected = SelectSeq(StableSortDesc(results), IsRejected)

====
